---- MODULE Spec2Model ----
(***************************************************************************)
(* Model of the capacity-planning engine of bentoo                         *)
(* (bentoo/common/helpers.py): size parsing and formatting, the process    *)
(* grid factorisation, the structured and unstructured grid resizers and   *)
(* the OmniModelResizer catalog, driven by a caller that builds a scaling  *)
(* series with resize followed by repeated next calls.                     *)
(*                                                                         *)
(* Python floats are modelled by exact values (n / d) * 2^x with n and d   *)
(* odd and coprime (zero is 0/1 * 2^0), so a result is the value the code  *)
(* computes up to the rounding of doubles.  Where that rounding changes an *)
(* integer result inside the modelled ranges it is modelled explicitly     *)
(* (see root_floor); "{:.1f}" is modelled as rounding half to even, which  *)
(* is what Python does for every value a double holds exactly.  On the     *)
(* inputs below the results are those of the Python code.                  *)
(***************************************************************************)
EXTENDS Integers, Sequences, FiniteSets, TLC

(***************************************************************************)
(* Float arithmetic                                                        *)
(***************************************************************************)
Abs(v) == IF v < 0 THEN -v ELSE v

RECURSIVE GCD(_, _)
GCD(a, b) == IF b = 0 THEN a ELSE GCD(b, a % b)

\* Strip the factors two of a positive integer: <<odd part, exponent>>.
RECURSIVE OddPart(_, _)
OddPart(v, k) == IF v % 2 = 0 THEN OddPart(v \div 2, k + 1) ELSE <<v, k>>

\* The float (n / d) * 2^x in canonical form, d > 0.
Float(n, d, x) ==
    IF n = 0 THEN [n |-> 0, d |-> 1, x |-> 0]
    ELSE LET g  == GCD(Abs(n), d)
             on == OddPart(Abs(n) \div g, 0)
             od == OddPart(d \div g, 0)
         IN  [n |-> IF n < 0 THEN -on[1] ELSE on[1],
              d |-> od[1],
              x |-> x + on[2] - od[2]]

FromInt(k) == Float(k, 1, 0)

Neg(a) == [a EXCEPT !.n = -a.n]

\* a < b for a, b > 0, without forming numbers wider than the machine word.
LtPos(a, b) ==
    LET L == a.n * b.d
        R == b.n * a.d
        k == a.x - b.x
    IN  IF k >= 0
        THEN k < 31 /\ L < ((R - 1) \div (2 ^ k)) + 1
        ELSE ~(-k < 31 /\ R <= L \div (2 ^ (-k)))

Lt(a, b) ==
    IF a.n > 0 /\ b.n > 0 THEN LtPos(a, b)
    ELSE IF a.n < 0 /\ b.n < 0 THEN LtPos(Neg(b), Neg(a))
    ELSE a.n < b.n

Le(a, b) == a = b \/ Lt(a, b)

Mul(a, b) ==
    LET g1 == GCD(Abs(a.n), b.d)
        g2 == GCD(Abs(b.n), a.d)
    IN  Float((a.n \div g1) * (b.n \div g2), (a.d \div g2) * (b.d \div g1), a.x + b.x)

Div(a, b) ==
    Mul(a, [n |-> IF b.n < 0 THEN -b.d ELSE b.d, d |-> Abs(b.n), x |-> -b.x])

Add(a, b) ==
    IF a.n = 0 THEN b
    ELSE IF b.n = 0 THEN a
    ELSE LET m == IF a.x < b.x THEN a.x ELSE b.x
             g == GCD(a.d, b.d)
         IN  Float(a.n * (2 ^ (a.x - m)) * (b.d \div g) + b.n * (2 ^ (b.x - m)) * (a.d \div g),
                   (a.d \div g) * b.d, m)

Sub(a, b) == Add(a, Neg(b))

FAbs(a) == [a EXCEPT !.n = Abs(a.n)]

\* math.floor and math.ceil of a float >= 0, as an integer.
Floor(a) ==
    IF a.x >= 0 THEN (a.n * (2 ^ a.x)) \div a.d
    ELSE IF -a.x >= 31 THEN 0
    ELSE (a.n \div a.d) \div (2 ^ (-a.x))

Ceil(a) == IF FromInt(Floor(a)) = a THEN Floor(a) ELSE Floor(a) + 1

(***************************************************************************)
(* sizeToFloat / floatToSize.  A size string "<tenths/10><unit>" is the    *)
(* record [tenths, unit]; unit is the letter as written ("" for none).     *)
(***************************************************************************)
Size(tenths, unit) == [tenths |-> tenths, unit |-> unit]

IsNumber(s) == "n" \in DOMAIN s

lower(u) == CASE u = "K" -> "k" [] u = "M" -> "m" [] u = "G" -> "g" [] OTHER -> u

\* The multipliers in powers of 1000.
unitValue_decimal ==
    [b |-> FromInt(1), k |-> FromInt(1000), m |-> FromInt(1000 * 1000),
     g |-> FromInt(1000 * 1000 * 1000)]

unitValue ==
    [b |-> FromInt(1), k |-> FromInt(1024), m |-> FromInt(1024 * 1024),
     g |-> FromInt(1024 * 1024 * 1024)]

sizeToFloat(s) ==
    IF IsNumber(s) THEN s
    ELSE LET value == Float(s.tenths, 10, 0)
             unit  == IF s.unit # "" THEN lower(s.unit) ELSE "b"
         IN  Mul(value, unitValue[unit])

\* "{:.0f}" for "{:.1f}": the tenths of v rounded down to a whole number.
format_0f(v) == 10 * Floor(v)

\* "{:.1f}".format(v): the number of tenths, rounded half to even.
format_1f(v) ==
    LET num == IF v.x >= 0 THEN 10 * v.n * (2 ^ v.x) ELSE 10 * v.n
        den == IF v.x >= 0 THEN v.d ELSE v.d * (2 ^ (-v.x))
        t   == num \div den
        r   == num % den
    IN  IF 2 * r < den THEN t
        ELSE IF 2 * r > den THEN t + 1
        ELSE IF t % 2 = 0 THEN t ELSE t + 1

floatToSize(f) ==
    IF ~IsNumber(f) THEN f
    ELSE IF Lt(f, FromInt(1024)) THEN Size(format_1f(f), "")
    ELSE IF Lt(f, FromInt(1024 * 1024))
         THEN Size(format_1f(Div(f, FromInt(1024))), "K")
    ELSE IF Lt(f, FromInt(1024 * 1024 * 1024))
         THEN Size(format_1f(Div(f, FromInt(1024 * 1024))), "M")
    ELSE Size(format_1f(Div(f, FromInt(1024 * 1024 * 1024))), "G")

(***************************************************************************)
(* Python dicts are records; a key is added or overwritten with SetKey.    *)
(* None is the value of resizer_id_ on a fixed model.  A call that raises  *)
(* yields the record [raise |-> <exception>].                              *)
(***************************************************************************)
None == -1

HasKey(m, k) == k \in DOMAIN m

SetKey(m, k, v) == (k :> v) @@ m

Raise(e) == [raise |-> e]

Raised(m) == HasKey(m, "raise")

(***************************************************************************)
(* The same two functions on the characters of a size string: a string is  *)
(* the sequence of its characters.                                         *)
(***************************************************************************)
Digits == <<"0", "1", "2", "3", "4", "5", "6", "7", "8", "9">>

\* \d+ from position i of s: the position after the run of digits.
RECURSIVE digits_end(_, _)
digits_end(s, i) ==
    IF i <= Len(s) /\ (\E k \in 1..10 : Digits[k] = s[i])
    THEN digits_end(s, i + 1) ELSE i

\* The integer written by the digits s[i] .. s[j - 1], after acc.
RECURSIVE int_value(_, _, _, _)
int_value(s, i, j, acc) ==
    IF i >= j THEN acc
    ELSE int_value(s, i + 1, j, 10 * acc + (CHOOSE k \in 0..9 : Digits[k + 1] = s[i]))

\* regex.match(s): the positions after \d+, (?:\.\d+)? and
\* (?:[eE][+-]?\d+)?, where the digits of the exponent start, and the first
\* letter of group 2 ("" when the group did not take part).
regex_match(s) ==
    LET int_end  == digits_end(s, 1)
        frac_end == IF int_end <= Len(s) /\ s[int_end] = "."
                          /\ digits_end(s, int_end + 1) > int_end + 1
                    THEN digits_end(s, int_end + 1) ELSE int_end
        exp_from == IF frac_end + 1 <= Len(s) /\ s[frac_end + 1] \in {"+", "-"}
                    THEN frac_end + 2 ELSE frac_end + 1
        exp_end  == IF frac_end <= Len(s) /\ s[frac_end] \in {"e", "E"}
                          /\ digits_end(s, exp_from) > exp_from
                    THEN digits_end(s, exp_from) ELSE frac_end
    IN  [matched  |-> int_end > 1,
         int_end  |-> int_end,
         frac_end |-> frac_end,
         exp_from |-> exp_from,
         exp_end  |-> exp_end,
         unit     |-> IF exp_end <= Len(s) /\ s[exp_end] \in {"k", "m", "g", "K", "M", "G"}
                      THEN s[exp_end] ELSE ""]

\* float(m.group(1)) for the match m of s.
group1_float(s, m) ==
    LET frac_len == IF m.frac_end > m.int_end THEN m.frac_end - m.int_end - 1 ELSE 0
        mantissa == int_value(s, m.int_end + 1, m.frac_end, int_value(s, 1, m.int_end, 0))
        exponent == int_value(s, m.exp_from, m.exp_end, 0)
    IN  IF m.exp_end > m.frac_end /\ s[m.exp_from - 1] = "-"
        THEN Float(mantissa, (10 ^ frac_len) * (10 ^ exponent), 0)
        ELSE Float(mantissa * (10 ^ exponent), 10 ^ frac_len, 0)

\* sizeToFloat(s) for a str s.
sizeToFloat_str(s) ==
    IF ~regex_match(s).matched THEN Raise("RuntimeError")
    ELSE Mul(group1_float(s, regex_match(s)),
             unitValue[IF regex_match(s).unit # "" THEN lower(regex_match(s).unit) ELSE "b"])

\* str(v) for an integer v >= 0.
RECURSIVE int_str(_)
int_str(v) ==
    IF v < 10 THEN <<Digits[v + 1]>> ELSE Append(int_str(v \div 10), Digits[(v % 10) + 1])

\* The characters of the string "{:.1f}<unit>" that floatToSize returns.
Size_str(size) ==
    int_str(size.tenths \div 10) \o <<".", Digits[(size.tenths % 10) + 1]>>
        \o (IF size.unit = "" THEN <<>> ELSE <<size.unit>>)

(***************************************************************************)
(* make_process_grid                                                       *)
(***************************************************************************)
RECURSIVE Product(_)
Product(l) == IF l = <<>> THEN 1 ELSE Head(l) * Product(Tail(l))

\* [v for i in range(k)]
RECURSIVE Repeat(_, _)
Repeat(v, k) == IF k = 0 THEN <<>> ELSE <<v>> \o Repeat(v, k - 1)

\* [x * y for x, y in zip(a, b)]
RECURSIVE zip_mul(_, _)
zip_mul(a, b) ==
    IF a = <<>> \/ b = <<>> THEN <<>>
    ELSE <<Head(a) * Head(b)>> \o zip_mul(Tail(a), Tail(b))

is_prime(v) == v = 1 \/ \A i \in 2..(v \div 2) : v % i # 0

\* prime_factors(x) inside make_process_grid(n, ...): the divisibility test
\* reads the enclosing n.
prime_factors(v, n) ==
    IF is_prime(v) THEN <<v>>
    ELSE SelectSeq([j \in 1..(v \div 2 - 1) |-> j + 1],
                   LAMBDA w : is_prime(w) /\ n % w = 0)

\* Index (from 1) of the first smallest / first largest entry.
min_index(l) == CHOOSE i \in 1..Len(l) :
                    /\ \A j \in 1..Len(l) : l[i] <= l[j]
                    /\ \A j \in 1..(i - 1) : l[j] > l[i]

max_index(l) == CHOOSE i \in 1..Len(l) :
                    /\ \A j \in 1..Len(l) : l[i] >= l[j]
                    /\ \A j \in 1..(i - 1) : l[j] < l[i]

\* sorted(result, reverse=True)
RECURSIVE sorted_reverse(_)
sorted_reverse(l) ==
    IF l = <<>> THEN <<>>
    ELSE LET i == max_index(l)
         IN  <<l[i]>> \o sorted_reverse(SubSeq(l, 1, i - 1) \o SubSeq(l, i + 1, Len(l)))

\* One pass of "while n1 % v == 0" for the prime v: st = [result, i, n1].
RECURSIVE assign_prime(_, _, _)
assign_prime(st, v, dim) ==
    IF st.n1 % v = 0
    THEN assign_prime([result |-> [st.result EXCEPT ![(st.i % dim) + 1] = @ * v],
                       i      |-> st.i + 1,
                       n1     |-> st.n1 \div v], v, dim)
    ELSE st

\* The test of the balancing loop without the comparison of the two entries.
can_move_divides(result, v) == result[max_index(result)] % v = 0

\* The test of the balancing loop and one move of it.
can_move(result, v) ==
    LET max_val == result[max_index(result)]
        min_val == result[min_index(result)]
    IN  max_val > min_val * v /\ max_val % v = 0

\* move without the division of the largest entry.
move_keep_max(result, v) == [result EXCEPT ![min_index(result)] = @ * v]

move(result, v) ==
    LET max_idx == max_index(result)
        r1      == [result EXCEPT ![max_idx] = @ \div v]
    IN  [r1 EXCEPT ![min_index(result)] = @ * v]

\* The balancing loop of a prime that breaks at once.
balance_none(result, v) == result

RECURSIVE balance_prime(_, _)
balance_prime(result, v) ==
    IF can_move(result, v) THEN balance_prime(move(result, v), v) ELSE result

RECURSIVE assign_all(_, _, _)
assign_all(st, primes, dim) ==
    IF primes = <<>> THEN st
    ELSE assign_all(assign_prime(st, Head(primes), dim), Tail(primes), dim)

RECURSIVE balance_all(_, _)
balance_all(result, primes) ==
    IF primes = <<>> THEN result
    ELSE balance_all(balance_prime(result, Head(primes)), Tail(primes))

\* The list make_process_grid holds when it reaches its assertion.
balanced_grid(n, dim) ==
    LET all_primes == prime_factors(n, n)
        ones       == Repeat(1, dim)
        st         == assign_all([result |-> ones, i |-> 0, n1 |-> n], all_primes, dim)
    IN  balance_all(sorted_reverse(st.result), all_primes)

\* The assertion of make_process_grid holds, or is not reached.
grid_assertion(n, dim) == n = 1 \/ n = 2 \/ Product(balanced_grid(n, dim)) = n

\* What make_process_grid returns when its assertion does not fail.
make_process_grid(n, dim) ==
    IF n = 1 THEN Repeat(1, dim)
    ELSE IF n = 2 THEN [Repeat(1, dim) EXCEPT ![1] = n]
    ELSE sorted_reverse(balanced_grid(n, dim))

(***************************************************************************)
(* StructuredGridModelResizer                                              *)
(***************************************************************************)
StructuredGridModelResizer(grid, total_mem) ==
    [class     |-> "StructuredGridModelResizer",
     grid      |-> grid,
     dim       |-> Len(grid),
     total_mem |-> sizeToFloat(total_mem)]

\* k ^ dim <= f for integers k >= 0, f >= 0, without forming k ^ dim.
RECURSIVE pow_fits(_, _, _)
pow_fits(k, dim, f) ==
    IF dim = 0 THEN f >= 1
    ELSE IF k = 0 THEN TRUE
    ELSE pow_fits(k, dim - 1, f \div k)

\* The largest k in lo..hi-1 with k ^ dim <= f, given lo ^ dim <= f < hi ^ dim.
RECURSIVE int_root(_, _, _, _)
int_root(f, dim, lo, hi) ==
    IF hi - lo <= 1 THEN lo
    ELSE LET mid == (lo + hi) \div 2
         IN  IF pow_fits(mid, dim, f) THEN int_root(f, dim, mid, hi)
             ELSE int_root(f, dim, lo, mid)

\* The root rounded up instead of down.
root_ceil(v, dim) ==
    LET k == int_root(Floor(v), dim, 0, Floor(v) + 1)
    IN  IF v = FromInt(k ^ dim) THEN k ELSE k + 1

\* The floor of the root taken one too low.
root_below(v, dim) ==
    LET k == int_root(Floor(v), dim, 0, Floor(v) + 1)
    IN  IF k >= 1 THEN k - 1 ELSE k

\* int(math.floor(v ** (1.0 / dim))) for v >= 0.  1.0 / 3 is below one third,
\* so the pow of an exact cube k^3, k >= 4, is just below k and its floor is
\* k - 1.
root_floor(v, dim) ==
    LET k == int_root(Floor(v), dim, 0, Floor(v) + 1)
    IN  IF dim = 3 /\ k >= 4 /\ v = FromInt(k ^ 3) THEN k - 1 ELSE k

\* bytes_per_cell and nx of StructuredGridModelResizer.resize.
bytes_per_cell(self) == Div(self.total_mem, FromInt(Product(self.grid)))

Structured_nx(self, mem_per_node) ==
    root_floor(Div(mem_per_node, bytes_per_cell(self)), self.dim)

\* new_mem_per_node, from nx.
new_mem_per_node(self, nx) ==
    Mul(bytes_per_cell(self), FromInt(Product(Repeat(nx, self.dim))))

Structured_result(self, nx, nnodes) ==
    [nnodes       |-> nnodes,
     grid         |-> zip_mul(Repeat(nx, self.dim), make_process_grid(nnodes, self.dim)),
     mem_per_node |-> floatToSize(new_mem_per_node(self, nx)),
     index_       |-> 0]

Structured_resize(self, mem_per_node, nnodes) ==
    IF ~grid_assertion(nnodes, self.dim) THEN Raise("AssertionError")
    ELSE Structured_result(self, Structured_nx(self, sizeToFloat(mem_per_node)), nnodes)

\* next without the advance of index_.
Structured_bump_same_axis(self, model, axis) ==
    [model EXCEPT !.nnodes = @ * 2, !.grid[axis + 1] = @ * 2]

Structured_bump(self, model, axis) ==
    [model EXCEPT !.nnodes = @ * 2,
                  !.grid[axis + 1] = @ * 2,
                  !.index_ = (axis + 1) % self.dim]

Structured_next(self, model) == Structured_bump(self, model, model.index_)

(***************************************************************************)
(* UnstructuredGridModelResizer                                            *)
(***************************************************************************)
UnstructuredGridModelResizer(dim, total_mem) ==
    [class     |-> "UnstructuredGridModelResizer",
     dim       |-> dim,
     total_mem |-> sizeToFloat(total_mem),
     stride    |-> 2 ^ dim]

\* int(math.floor(math.log(ratio, stride))) for ratio >= 1.
RECURSIVE floor_log(_, _, _)
floor_log(ratio, stride, i) ==
    IF Le(FromInt(stride ^ (i + 1)), ratio) THEN floor_log(ratio, stride, i + 1) ELSE i

\* 2 ** int(math.ceil(math.log2(k))) for an integer k >= 1, from p = 1.
RECURSIVE pow2_ceil(_, _)
pow2_ceil(k, p) == IF p >= k THEN p ELSE pow2_ceil(k, p * 2)

rel_deviation(total_mem, total_mem_req) ==
    FAbs(Div(Mul(FromInt(2), Sub(total_mem_req, total_mem)),
             Add(total_mem, total_mem_req)))

\* The test of the first return: the model is used as it is.
accept_model(total_mem, total_mem_req, rel) ==
    \/ Lt(rel, Float(1, 100, 0))
    \/ (Lt(total_mem, total_mem_req) /\ Lt(rel, Float(25, 100, 0)))

Unstructured_direct(self, total_mem_req) ==
    accept_model(self.total_mem, total_mem_req,
                 rel_deviation(self.total_mem, total_mem_req))

real_mem(self, i) == Mul(self.total_mem, FromInt(self.stride ^ i))

Unstructured_result(self, i, nnodes) ==
    [nrefines     |-> i,
     nnodes       |-> nnodes,
     mem_per_node |-> floatToSize(Div(real_mem(self, i), FromInt(nnodes)))]

\* The branch that refines once more and changes nnodes.
Unstructured_grow(self, mem_per_node, nnodes, total_mem_req, i) ==
    IF ~Lt(mem_per_node, Div(real_mem(self, i), FromInt(nnodes)))
    THEN Raise("AssertionError")
    ELSE Unstructured_result(
             self, i,
             pow2_ceil(Ceil(Div(real_mem(self, i), total_mem_req)) * nnodes, 1))

\* The branch of a request bigger than the model that never changes nnodes.
Unstructured_enlarge_keep(self, mem_per_node, nnodes, total_mem_req, i) ==
    Unstructured_result(self, i, nnodes)

\* The branch of a request bigger than the model, i the floor of the log.
Unstructured_enlarge(self, mem_per_node, nnodes, total_mem_req, i) ==
    IF Lt(Mul(Div(real_mem(self, i), FromInt(nnodes)), FromInt(2)), mem_per_node)
    THEN Unstructured_grow(self, mem_per_node, nnodes, total_mem_req, i + 1)
    ELSE Unstructured_result(self, i, nnodes)

\* The shrink branch with the floor of total_mem / mem_per_node for its ceil.
Unstructured_shrink_floor(self, mem_per_node) ==
    Unstructured_result(self, 0, pow2_ceil(Floor(Div(self.total_mem, mem_per_node)), 1))

\* The shrink branch with the power of two of half the nodes it needs.
Unstructured_shrink_half(self, mem_per_node) ==
    Unstructured_result(
        self, 0, pow2_ceil((Ceil(Div(self.total_mem, mem_per_node)) + 1) \div 2, 1))

\* The branch of a request smaller than the model.
Unstructured_shrink(self, mem_per_node) ==
    Unstructured_result(self, 0, pow2_ceil(Ceil(Div(self.total_mem, mem_per_node)), 1))

Unstructured_branch(self, mem_per_node, nnodes, total_mem_req) ==
    IF Unstructured_direct(self, total_mem_req)
    THEN Unstructured_result(self, 0, nnodes)
    ELSE IF Lt(self.total_mem, total_mem_req)
    THEN Unstructured_enlarge(self, mem_per_node, nnodes, total_mem_req,
                              floor_log(Div(total_mem_req, self.total_mem), self.stride, 0))
    ELSE Unstructured_shrink(self, mem_per_node)

Unstructured_resize(self, mem_per_node, nnodes) ==
    Unstructured_branch(self, sizeToFloat(mem_per_node), nnodes,
                        Mul(sizeToFloat(mem_per_node), FromInt(nnodes)))

\* helpers2.UnstructuredGridModelResizer.resize: the module the unit tests
\* import.  Its first return takes every rel < 0.25, whichever of the request
\* and the model is the larger; the branches after it are those above.
helpers2_accept_model(total_mem, total_mem_req, rel) == Lt(rel, Float(25, 100, 0))

helpers2_branch(self, mem_per_node, nnodes, total_mem_req) ==
    IF helpers2_accept_model(self.total_mem, total_mem_req,
                             rel_deviation(self.total_mem, total_mem_req))
    THEN Unstructured_result(self, 0, nnodes)
    ELSE IF Lt(self.total_mem, total_mem_req)
    THEN Unstructured_enlarge(self, mem_per_node, nnodes, total_mem_req,
                              floor_log(Div(total_mem_req, self.total_mem), self.stride, 0))
    ELSE Unstructured_shrink(self, mem_per_node)

helpers2_resize(self, mem_per_node, nnodes) ==
    helpers2_branch(self, sizeToFloat(mem_per_node), nnodes,
                    Mul(sizeToFloat(mem_per_node), FromInt(nnodes)))

\* next with nnodes doubled instead of multiplied by the stride.
Unstructured_next_double(self, model) ==
    [model EXCEPT !.nnodes = @ * 2, !.nrefines = @ + 1]

Unstructured_next(self, model) ==
    [model EXCEPT !.nnodes = @ * self.stride, !.nrefines = @ + 1]

\* resizer.resize / resizer.next of whichever class the resizer has.
Resizer_resize(self, mem_per_node, nnodes) ==
    IF self.class = "StructuredGridModelResizer"
    THEN Structured_resize(self, mem_per_node, nnodes)
    ELSE Unstructured_resize(self, mem_per_node, nnodes)

Resizer_next(self, model) ==
    IF self.class = "StructuredGridModelResizer"
    THEN Structured_next(self, model)
    ELSE Unstructured_next(self, model)

(***************************************************************************)
(* OmniModelResizer                                                        *)
(***************************************************************************)
\* max taken where min is meant.
first_largest(keys) ==
    CHOOSE i \in 1..Len(keys) :
        /\ \A j \in 1..Len(keys) : ~Lt(keys[i], keys[j])
        /\ \A j \in 1..(i - 1) : Lt(keys[j], keys[i])

\* The index (from 1) of the first smallest / first largest of the float keys:
\* the entry min(l, key=...) / max(l, key=...) returns.
first_min(keys) ==
    CHOOSE i \in 1..Len(keys) :
        /\ \A j \in 1..Len(keys) : ~Lt(keys[j], keys[i])
        /\ \A j \in 1..(i - 1) : Lt(keys[i], keys[j])

first_max(keys) ==
    CHOOSE i \in 1..Len(keys) :
        /\ \A j \in 1..Len(keys) : ~Lt(keys[i], keys[j])
        /\ \A j \in 1..(i - 1) : Lt(keys[j], keys[i])

\* The loop body that marks the catalog exact for every structured_grid
\* model, before it looks at resizable.
Omni_add_any_structured(self, model) ==
    IF ~HasKey(model, "tag") THEN Raise("AssertionError")
    ELSE IF ~(HasKey(model, "resizable") /\ model.resizable)
    THEN [self EXCEPT
             !.fixed_models = Append(@, SetKey(model, "resizer_id_", None)),
             !.can_resize_exactly = @ \/ (HasKey(model, "type")
                                          /\ model.type = "structured_grid")]
    ELSE IF model.type \notin {"structured_grid", "unstructured_grid"}
    THEN Raise("AssertionError")
    ELSE IF model.type = "structured_grid"
    THEN [self EXCEPT
             !.resizers = Append(@, StructuredGridModelResizer(model.grid, model.total_mem)),
             !.can_resize_exactly = TRUE]
    ELSE [self EXCEPT
             !.resizers = Append(@, UnstructuredGridModelResizer(model.dim, model.total_mem))]

\* The body of the loop of __init__ for one model of model_db.
Omni_add(self, model) ==
    IF ~HasKey(model, "tag") THEN Raise("AssertionError")
    ELSE IF ~(HasKey(model, "resizable") /\ model.resizable)
    THEN [self EXCEPT !.fixed_models = Append(@, SetKey(model, "resizer_id_", None))]
    ELSE IF ~HasKey(model, "type") THEN Raise("KeyError")
    ELSE IF model.type \notin {"structured_grid", "unstructured_grid"}
    THEN Raise("AssertionError")
    ELSE IF model.type = "structured_grid"
    THEN IF ~HasKey(model, "grid") \/ ~HasKey(model, "total_mem") THEN Raise("KeyError")
         ELSE [self EXCEPT
                  !.resizers = Append(@, StructuredGridModelResizer(model.grid,
                                                                    model.total_mem)),
                  !.can_resize_exactly = TRUE]
    ELSE IF ~HasKey(model, "dim") \/ ~HasKey(model, "total_mem") THEN Raise("KeyError")
    ELSE [self EXCEPT
             !.resizers = Append(@, UnstructuredGridModelResizer(model.dim, model.total_mem))]

RECURSIVE Omni_fill(_, _)
Omni_fill(self, model_db) ==
    IF model_db = <<>> \/ Raised(self) THEN self
    ELSE Omni_fill(Omni_add(self, Head(model_db)), Tail(model_db))

\* OmniModelResizer(model_db, max_nnodes): max_nnodes is not kept.
OmniModelResizer(model_db, max_nnodes) ==
    Omni_fill([resizers |-> <<>>, fixed_models |-> <<>>, can_resize_exactly |-> FALSE],
              model_db)

exactResize(self) == self.can_resize_exactly

\* m["resizer_id_"] = i, for a call that returned.
tagged(m, i) == IF Raised(m) THEN m ELSE SetKey(m, "resizer_id_", i)

\* [resizer.resize(mem_per_node, nnodes) tagged with its index], in order.
RECURSIVE Omni_candidates(_, _, _, _)
Omni_candidates(resizers, i, mem_per_node, nnodes) ==
    IF i >= Len(resizers) THEN <<>>
    ELSE <<tagged(Resizer_resize(resizers[i + 1], mem_per_node, nnodes), i)>>
         \o Omni_candidates(resizers, i + 1, mem_per_node, nnodes)

\* The two terms and the value of deviation(x) in OmniModelResizer.resize.
resize_s1(x, mem_per_node_req) ==
    Sub(FromInt(1), Div(sizeToFloat(x.mem_per_node), mem_per_node_req))

resize_s2(x, nnodes) ==
    Sub(FromInt(1), Div(FromInt(Abs(x.nnodes - nnodes)), FromInt(x.nnodes + nnodes)))

resize_deviation(x, mem_per_node_req, nnodes) ==
    Add(Mul(Float(4, 10, 0), resize_s1(x, mem_per_node_req)),
        Mul(Float(6, 10, 0), resize_s2(x, nnodes)))

RECURSIVE resize_deviations(_, _, _)
resize_deviations(l, mem_per_node_req, nnodes) ==
    IF l = <<>> THEN <<>>
    ELSE <<resize_deviation(Head(l), mem_per_node_req, nnodes)>>
         \o resize_deviations(Tail(l), mem_per_node_req, nnodes)

\* ratio in the loops over fixed_models, and the keys of max(candidates, ...).
mem_ratio(model, mem_per_node_req) ==
    Div(sizeToFloat(model.mem_per_node), mem_per_node_req)

RECURSIVE mem_ratios(_, _)
mem_ratios(l, mem_per_node_req) ==
    IF l = <<>> THEN <<>>
    ELSE <<mem_ratio(Head(l), mem_per_node_req)>> \o mem_ratios(Tail(l), mem_per_node_req)

\* The test without the upper end of the band.
resize_fixed_no_upper(nnodes_real, ratio, nnodes) ==
    nnodes_real = nnodes /\ Lt(Float(8, 10, 0), ratio)

\* The test of a fixed model in OmniModelResizer.resize.
resize_fixed_ok(nnodes_real, ratio, nnodes) ==
    nnodes_real = nnodes /\ Lt(Float(8, 10, 0), ratio) /\ Le(ratio, FromInt(1))

RECURSIVE resize_fixed_candidates(_, _, _)
resize_fixed_candidates(fixed_models, mem_per_node_req, nnodes) ==
    IF fixed_models = <<>> THEN <<>>
    ELSE (IF resize_fixed_ok(Head(fixed_models).nnodes,
                             mem_ratio(Head(fixed_models), mem_per_node_req), nnodes)
          THEN <<Head(fixed_models)>> ELSE <<>>)
         \o resize_fixed_candidates(Tail(fixed_models), mem_per_node_req, nnodes)

\* What resize does with the candidates of the resizers.
resize_pick(candidates, mem_per_node_req, nnodes) ==
    IF \E j \in 1..Len(candidates) : Raised(candidates[j])
    THEN Raise("AssertionError")
    ELSE IF \E j \in 1..Len(candidates) :
                Lt(resize_s1(candidates[j], mem_per_node_req), FromInt(0))
    THEN Raise("AssertionError")
    ELSE IF candidates # <<>>
    THEN candidates[first_min(resize_deviations(candidates, mem_per_node_req, nnodes))]
    ELSE Raise("RuntimeError")

resize_choose(self, fixed, mem_per_node, mem_per_node_req, nnodes) ==
    IF fixed # <<>>
    THEN fixed[first_max(mem_ratios(fixed, mem_per_node_req))]
    ELSE resize_pick(Omni_candidates(self.resizers, 0, mem_per_node, nnodes),
                     mem_per_node_req, nnodes)

\* model["mem_per_node"] and model["nnodes"] are read of every fixed model.
Omni_resize(self, mem_per_node, nnodes) ==
    IF \E j \in 1..Len(self.fixed_models) :
           ~HasKey(self.fixed_models[j], "mem_per_node")
               \/ ~HasKey(self.fixed_models[j], "nnodes")
    THEN Raise("KeyError")
    ELSE resize_choose(self,
                       resize_fixed_candidates(self.fixed_models, sizeToFloat(mem_per_node),
                                               nnodes),
                       mem_per_node, sizeToFloat(mem_per_node), nnodes)

\* The test with nnodes >= curr_nnodes.
next_fixed_not_strict(nnodes, ratio, curr_nnodes) ==
    nnodes >= curr_nnodes /\ Lt(Float(95, 100, 0), ratio) /\ Le(ratio, Float(105, 100, 0))

\* The test with nnodes != curr_nnodes.
next_fixed_other_nnodes(nnodes, ratio, curr_nnodes) ==
    nnodes # curr_nnodes /\ Lt(Float(95, 100, 0), ratio) /\ Le(ratio, Float(105, 100, 0))

\* The test of a fixed model in OmniModelResizer.next.
next_fixed_ok(nnodes, ratio, curr_nnodes) ==
    nnodes > curr_nnodes /\ Lt(Float(95, 100, 0), ratio) /\ Le(ratio, Float(105, 100, 0))

RECURSIVE next_fixed_candidates(_, _, _)
next_fixed_candidates(fixed_models, curr_mem_per_node, curr_nnodes) ==
    IF fixed_models = <<>> THEN <<>>
    ELSE (IF next_fixed_ok(Head(fixed_models).nnodes,
                           mem_ratio(Head(fixed_models), curr_mem_per_node), curr_nnodes)
          THEN <<Head(fixed_models)>> ELSE <<>>)
         \o next_fixed_candidates(Tail(fixed_models), curr_mem_per_node, curr_nnodes)

\* min(candidates, key=lambda x: int(x["nnodes"]))
min_nnodes(l) ==
    l[CHOOSE i \in 1..Len(l) :
          /\ \A j \in 1..Len(l) : l[i].nnodes <= l[j].nnodes
          /\ \A j \in 1..(i - 1) : l[j].nnodes > l[i].nnodes]

\* The test of a probe of a resizer in OmniModelResizer.next.
next_probe_ok(nnodes, ratio, curr_nnodes) ==
    nnodes > curr_nnodes /\ Le(Float(95, 100, 0), ratio) /\ Le(ratio, Float(105, 100, 0))

\* Only the probe at curr_nnodes * 2 is made.
next_probe_once(resizer, i, mem_per_node_req, curr_nnodes, k, m) ==
    IF Raised(m) THEN <<m>>
    ELSE IF next_probe_ok(m.nnodes, mem_ratio(m, mem_per_node_req), curr_nnodes)
    THEN <<tagged(m, i)>>
    ELSE <<>>

\* The probes of one resizer from curr_nnodes * k on (k = 2, 4, 8), m the
\* result of the probe at k: the first accepted one as a one-element list,
\* <<>> when none is, or the exception.
RECURSIVE next_probe(_, _, _, _, _, _)
next_probe(resizer, i, mem_per_node_req, curr_nnodes, k, m) ==
    IF Raised(m) THEN <<m>>
    ELSE IF next_probe_ok(m.nnodes, mem_ratio(m, mem_per_node_req), curr_nnodes)
    THEN <<tagged(m, i)>>
    ELSE IF k = 8 THEN <<>>
    ELSE next_probe(resizer, i, mem_per_node_req, curr_nnodes, k * 2,
                    Resizer_resize(resizer, mem_per_node_req, curr_nnodes * (k * 2)))

RECURSIVE next_probes(_, _, _, _)
next_probes(resizers, i, mem_per_node_req, curr_nnodes) ==
    IF i >= Len(resizers) THEN <<>>
    ELSE next_probe(resizers[i + 1], i, mem_per_node_req, curr_nnodes, 2,
                    Resizer_resize(resizers[i + 1], mem_per_node_req, curr_nnodes * 2))
         \o next_probes(resizers, i + 1, mem_per_node_req, curr_nnodes)

next_deviation(x, mem_per_node_req) ==
    Sub(FromInt(1), Div(sizeToFloat(x.mem_per_node), mem_per_node_req))

RECURSIVE next_deviations(_, _)
next_deviations(l, mem_per_node_req) ==
    IF l = <<>> THEN <<>>
    ELSE <<next_deviation(Head(l), mem_per_node_req)>>
         \o next_deviations(Tail(l), mem_per_node_req)

\* What next does with the accepted probes of the resizers.
next_pick(probes, mem_per_node_req) ==
    IF \E j \in 1..Len(probes) : Raised(probes[j])
    THEN Raise("AssertionError")
    ELSE IF probes # <<>>
    THEN probes[first_min(next_deviations(probes, mem_per_node_req))]
    ELSE Raise("StopIteration")

next_choose(self, fixed, curr_mem_per_node, curr_nnodes) ==
    IF fixed # <<>> THEN min_nnodes(fixed)
    ELSE next_pick(next_probes(self.resizers, 0, curr_mem_per_node, curr_nnodes),
                   curr_mem_per_node)

\* next without the routing by resizer_id_: every call searches.
Omni_next_search(self, model) ==
    next_choose(self,
                next_fixed_candidates(self.fixed_models,
                                      sizeToFloat(model.mem_per_node), model.nnodes),
                sizeToFloat(model.mem_per_node), model.nnodes)

Omni_next(self, model) ==
    IF HasKey(model, "resizer_id_") /\ model.resizer_id_ # None
    THEN SetKey(Resizer_next(self.resizers[model.resizer_id_ + 1], model),
                "resizer_id_", model.resizer_id_)
    ELSE next_choose(self,
                     next_fixed_candidates(self.fixed_models,
                                           sizeToFloat(model.mem_per_node), model.nnodes),
                     sizeToFloat(model.mem_per_node), model.nnodes)

(***************************************************************************)
(* The same methods with the dicts and lists of the process kept by        *)
(* address: a heap is the sequence of the objects allocated so far and a   *)
(* reference is an index into it; a dict is a record whose "grid" entry,   *)
(* when it has one, is the reference of a list.                            *)
(***************************************************************************)
\* The value of the dict at ref, its grid list included.
heap_value(heap, ref) ==
    IF HasKey(heap[ref], "grid")
    THEN [heap[ref] EXCEPT !.grid = heap[heap[ref].grid]]
    ELSE heap[ref]

\* A dict display {...} (with a new list for "grid") of value v: the heap
\* after it and the reference of the new dict.
new_dict(heap, v) ==
    IF HasKey(v, "grid")
    THEN [heap |-> heap \o <<v.grid, [v EXCEPT !.grid = Len(heap) + 1]>>,
          ref  |-> Len(heap) + 2]
    ELSE [heap |-> Append(heap, v), ref |-> Len(heap) + 1]

\* copy.copy for copy.deepcopy: the new dict shares the list of the old one.
copy_copy(heap, ref) == [heap |-> Append(heap, heap[ref]), ref |-> Len(heap) + 1]

\* copy.deepcopy(x) of the dict at ref.
copy_deepcopy(heap, ref) == new_dict(heap, heap_value(heap, ref))

\* The statements of StructuredGridModelResizer.next after the copy, on the
\* copy c = [heap, ref].
Heap_Structured_bump(resizer, c) ==
    [heap |-> [c.heap EXCEPT ![c.ref].nnodes = @ * 2,
                             ![c.heap[c.ref].grid][c.heap[c.ref].index_ + 1] = @ * 2,
                             ![c.ref].index_ = (@ + 1) % resizer.dim],
     ref  |-> c.ref]

\* The statements of UnstructuredGridModelResizer.next after the copy.
Heap_Unstructured_bump(resizer, c) ==
    [heap |-> [c.heap EXCEPT ![c.ref].nnodes = @ * resizer.stride,
                             ![c.ref].nrefines = @ + 1],
     ref  |-> c.ref]

\* resizer.next(model) for the dict at the reference model.
Heap_Resizer_next(resizer, heap, model) ==
    IF resizer.class = "StructuredGridModelResizer"
    THEN Heap_Structured_bump(resizer, copy_deepcopy(heap, model))
    ELSE Heap_Unstructured_bump(resizer, copy_deepcopy(heap, model))

\* The catalog as a value: the records of fixed_models for their references.
heap_catalog(self) ==
    [resizers           |-> self.resizers,
     fixed_models       |-> [j \in 1..Len(self.fixed_models) |->
                                heap_value(self.heap, self.fixed_models[j])],
     can_resize_exactly |-> self.can_resize_exactly]

\* The reference of the first record of fixed_models of value v.
fixed_ref(self, v) ==
    self.fixed_models[CHOOSE j \in 1..Len(self.fixed_models) :
                          /\ heap_value(self.heap, self.fixed_models[j]) = v
                          /\ \A i \in 1..(j - 1) :
                                 heap_value(self.heap, self.fixed_models[i]) # v]

\* OmniModelResizer.resize on the heap, out the value it computes: a fixed
\* model is returned as copy.deepcopy(result), a resizer's candidate is the
\* dict the resizer made, tagged.
Heap_Omni_resize(self, out) ==
    IF Raised(out) THEN [heap |-> self.heap, ref |-> 0, raise |-> out.raise]
    ELSE IF out.resizer_id_ = None
    THEN copy_deepcopy(self.heap, fixed_ref(self, out))
    ELSE new_dict(self.heap, out)

\* m["resizer_id_"] = model["resizer_id_"] on the result m = [heap, ref].
Heap_tag(m, resizer_id_) ==
    [heap |-> [m.heap EXCEPT ![m.ref].resizer_id_ = resizer_id_], ref |-> m.ref]

\* OmniModelResizer.next on the heap for the dict at the reference model,
\* v its value and out the value next computes in its search.
Heap_Omni_next(self, model, v, out) ==
    IF v.resizer_id_ # None
    THEN Heap_tag(Heap_Resizer_next(self.resizers[v.resizer_id_ + 1], self.heap, model),
                  v.resizer_id_)
    ELSE IF Raised(out) THEN [heap |-> self.heap, ref |-> 0, raise |-> out.raise]
    ELSE IF out.resizer_id_ = None
    THEN copy_deepcopy(self.heap, fixed_ref(self, out))
    ELSE new_dict(self.heap, out)

(***************************************************************************)
(* The caller.  An object is constructed from its arguments and the caller *)
(* builds one scaling series on it: a resize call, then next on the last   *)
(* result, again and again (the loops of bentoo/tools/generator.py).  The  *)
(* object is an OmniModelResizer over a catalog description, or one of the *)
(* two resizers taken directly.                                            *)
(***************************************************************************)
VARIABLES
    config,      \* the arguments of the constructor
    self,        \* the object constructed from them
    callee,      \* "omni", "resizer" or "make_process_grid"
    request,     \* the arguments of the first call
    series,      \* the results so far: resize, next, next, ...
    status       \* "idle", "ok", or the exception the last call raised

vars == <<config, self, callee, request, series, status>>

\* Bounds of the model.
MaxModels == 2
MaxSeries == 4
MaxGridN == 64
MaxGridDim == 4

FixedPool ==
    { [tag |-> "f1", nnodes |-> 1, mem_per_node |-> Size(10, "G")],
      [tag |-> "f4", nnodes |-> 4, mem_per_node |-> Size(10000, "M")],
      [tag |-> "f4s", nnodes |-> 4, mem_per_node |-> Size(9, "G"),
       resizable |-> FALSE, type |-> "structured_grid"] }

ResizablePool ==
    { [tag |-> "u3", resizable |-> TRUE, type |-> "unstructured_grid",
       dim |-> 3, total_mem |-> Size(50, "G")],
      [tag |-> "u1", resizable |-> TRUE, type |-> "unstructured_grid",
       dim |-> 1, total_mem |-> Size(10000, "M")],
      [tag |-> "s2", resizable |-> TRUE, type |-> "structured_grid",
       grid |-> <<4, 4>>, total_mem |-> Size(10, "G")],
      [tag |-> "s3", resizable |-> TRUE, type |-> "structured_grid",
       grid |-> <<2, 2, 2>>, total_mem |-> Size(20, "G")] }

ModelPool == FixedPool \cup ResizablePool

\* The catalog descriptions: up to MaxModels models of the pool, in any order.
RECURSIVE SeqsUpTo(_, _)
SeqsUpTo(S, k) ==
    IF k = 0 THEN {<<>>}
    ELSE LET shorter == SeqsUpTo(S, k - 1)
         IN  shorter \cup {Append(q, e) : q \in shorter, e \in S}

\* Catalogs for series that start at the fixed model of 4 nodes and 1000.0M:
\* that model followed by two different models of SeriesPool, which holds a
\* fixed model at 95% of its memory, and resizers whose probes at 8 or 16
\* nodes give exactly, or half a percent more than, its memory.
SeriesOrigin == [tag |-> "f4", nnodes |-> 4, mem_per_node |-> Size(10000, "M")]

SeriesPool ==
    { [tag |-> "f16", nnodes |-> 16, mem_per_node |-> Size(9500, "M")],
      [tag |-> "u1", resizable |-> TRUE, type |-> "unstructured_grid",
       dim |-> 1, total_mem |-> Size(10000, "M")],
      [tag |-> "uo8", resizable |-> TRUE, type |-> "unstructured_grid",
       dim |-> 1, total_mem |-> Size(80400, "M")],
      [tag |-> "uo16", resizable |-> TRUE, type |-> "unstructured_grid",
       dim |-> 1, total_mem |-> Size(160800, "M")] }

SeriesCatalogs ==
    { <<SeriesOrigin, a>> : a \in SeriesPool }
    \cup { <<SeriesOrigin, a, b>> : a \in SeriesPool, b \in SeriesPool }

Catalogs == SeqsUpTo(ModelPool, MaxModels) \cup SeriesCatalogs

MaxNnodesChoices == {4, 16}

\* The requests made to a catalog.
MemRequests ==
    { Size(10, "G"), Size(9, "G"), Size(9950, "M"), Size(5000, "M"),
      Size(50, "G"), Size(51, "G"), Size(45, "G") }

NnodesRequests == {1, 2, 4, 64}

\* The model_spec entries a resizer is constructed from directly, and the
\* requests made to it.
TotalMems ==
    { Size(10, "G"), Size(10000, "M"), Size(50, "G"), Size(5, "G"),
      Size(1000, "M"), Size(640, "M") }

Grids == { <<8>>, <<4, 4>>, <<16, 8>>, <<2, 2, 2>>, <<4, 4, 4>> }

ModelSpecs ==
    { [type |-> "unstructured_grid", dim |-> d, total_mem |-> t] :
          d \in 1..3, t \in TotalMems }
    \cup
    { [type |-> "structured_grid", grid |-> g, total_mem |-> t] :
          g \in Grids, t \in TotalMems }

ResizerMemRequests ==
    MemRequests \cup
    { Size(995, "M"), Size(1, "G"), Size(2, "G"), Size(25, "G"),
      Size(100, "M"), Size(640, "M"), Size(320, "M") }

ResizerNnodesRequests == {1, 2, 3, 4, 6, 8, 12, 16, 64}

\* The resizer generator.py constructs for a model_spec.
make_resizer(model_spec) ==
    IF model_spec.type = "structured_grid"
    THEN StructuredGridModelResizer(model_spec.grid, model_spec.total_mem)
    ELSE UnstructuredGridModelResizer(model_spec.dim, model_spec.total_mem)

Last(q) == q[Len(q)]

NoRequest == [mem_per_node |-> Size(0, ""), nnodes |-> 0]

Init ==
    /\ \/ /\ callee = "omni"
          /\ config \in [model_db : Catalogs, max_nnodes : MaxNnodesChoices]
          /\ self = OmniModelResizer(config.model_db, config.max_nnodes)
       \/ /\ callee = "resizer"
          /\ config \in ModelSpecs
          /\ self = make_resizer(config)
    /\ request = NoRequest
    /\ series = <<>>
    /\ status = "idle"

\* The caller's state after a call returned m or raised.
Returned(m, so_far) ==
    /\ status' = IF Raised(m) THEN m.raise ELSE "ok"
    /\ series' = IF Raised(m) THEN so_far ELSE Append(so_far, m)

OmniResize(mem_per_node, nnodes) ==
    /\ status = "idle" /\ callee = "omni"
    /\ request' = [mem_per_node |-> mem_per_node, nnodes |-> nnodes]
    /\ Returned(Omni_resize(self, mem_per_node, nnodes), <<>>)
    /\ UNCHANGED <<config, self, callee>>

OmniNext ==
    /\ status = "ok" /\ callee = "omni" /\ Len(series) < MaxSeries
    /\ Returned(Omni_next(self, Last(series)), series)
    /\ UNCHANGED <<config, self, callee, request>>

StructuredResize(mem_per_node, nnodes) ==
    /\ status = "idle" /\ callee = "resizer"
    /\ self.class = "StructuredGridModelResizer"
    /\ request' = [mem_per_node |-> mem_per_node, nnodes |-> nnodes]
    /\ Returned(Structured_resize(self, mem_per_node, nnodes), <<>>)
    /\ UNCHANGED <<config, self, callee>>

StructuredNext ==
    /\ status = "ok" /\ callee = "resizer" /\ Len(series) < MaxSeries
    /\ self.class = "StructuredGridModelResizer"
    /\ Returned(Structured_next(self, Last(series)), series)
    /\ UNCHANGED <<config, self, callee, request>>

UnstructuredResize(mem_per_node, nnodes) ==
    /\ status = "idle" /\ callee = "resizer"
    /\ self.class = "UnstructuredGridModelResizer"
    /\ request' = [mem_per_node |-> mem_per_node, nnodes |-> nnodes]
    /\ Returned(Unstructured_resize(self, mem_per_node, nnodes), <<>>)
    /\ UNCHANGED <<config, self, callee>>

UnstructuredNext ==
    /\ status = "ok" /\ callee = "resizer" /\ Len(series) < MaxSeries
    /\ self.class = "UnstructuredGridModelResizer"
    /\ Returned(Unstructured_next(self, Last(series)), series)
    /\ UNCHANGED <<config, self, callee, request>>

Next ==
    \/ \E m \in MemRequests, n \in NnodesRequests : OmniResize(m, n)
    \/ OmniNext
    \/ \E m \in ResizerMemRequests, n \in ResizerNnodesRequests : StructuredResize(m, n)
    \/ StructuredNext
    \/ \E m \in ResizerMemRequests, n \in ResizerNnodesRequests : UnstructuredResize(m, n)
    \/ UnstructuredNext

Spec == Init /\ [][Next]_vars

(***************************************************************************)
(* make_process_grid called on its own, for every n and dim of the bounds. *)
(***************************************************************************)
GridInit ==
    /\ callee = "make_process_grid"
    /\ config = <<>>
    /\ self = <<>>
    /\ request = NoRequest
    /\ series = <<>>
    /\ status = "idle"

MakeProcessGrid(n, dim) ==
    /\ status = "idle" /\ callee = "make_process_grid"
    /\ request' = [n |-> n, dim |-> dim]
    /\ status' = IF grid_assertion(n, dim) THEN "ok" ELSE "AssertionError"
    /\ series' = IF grid_assertion(n, dim) THEN <<make_process_grid(n, dim)>> ELSE <<>>
    /\ UNCHANGED <<config, self, callee>>

\* The number of nodes of the largest case of the unit test, beyond MaxGridN.
GridLargeN == {3072}

\* A number of nodes with three distinct prime factors, beyond MaxGridN.
GridMixedN == {126}

GridNext ==
    \E n \in (1..MaxGridN) \cup GridLargeN \cup GridMixedN, dim \in 1..MaxGridDim :
        MakeProcessGrid(n, dim)

SpecGrid == GridInit /\ [][GridNext]_vars

(***************************************************************************)
(* The unit tests of src/tests/test_helpers.py: they construct the         *)
(* UnstructuredGridModelResizer of helpers2 and call resize on it.         *)
(***************************************************************************)
TestInit ==
    /\ callee = "helpers2"
    /\ config \in {c \in ModelSpecs : c.type = "unstructured_grid"}
    /\ self = UnstructuredGridModelResizer(config.dim, config.total_mem)
    /\ request = NoRequest
    /\ series = <<>>
    /\ status = "idle"

TestResize(mem_per_node, nnodes) ==
    /\ status = "idle" /\ callee = "helpers2"
    /\ request' = [mem_per_node |-> mem_per_node, nnodes |-> nnodes]
    /\ Returned(helpers2_resize(self, mem_per_node, nnodes), <<>>)
    /\ UNCHANGED <<config, self, callee>>

TestNext == \E m \in ResizerMemRequests, n \in ResizerNnodesRequests : TestResize(m, n)

SpecTest == TestInit /\ [][TestNext]_vars

(***************************************************************************)
(* Two callers on one OmniModelResizer, with the dicts and lists of the    *)
(* process kept by address.  self.heap is the sequence of the objects      *)
(* allocated so far and a reference is an index into it; a dict is a       *)
(* record whose "grid" entry, when it has one, is the reference of a list. *)
(* self.fixed_models holds the references of the catalog's records and     *)
(* series[c] those of the results caller c was returned.  Each caller      *)
(* builds its own series; the calls of the two interleave in any order.    *)
(***************************************************************************)
MaxHeapSeries == 3

Callers == {1, 2}

HeapCatalogs ==
    { <<[tag |-> "f1", nnodes |-> 1, mem_per_node |-> Size(10, "G")],
        [tag |-> "s2", resizable |-> TRUE, type |-> "structured_grid",
         grid |-> <<4, 4>>, total_mem |-> Size(10, "G")]>>,
      <<[tag |-> "s3", resizable |-> TRUE, type |-> "structured_grid",
         grid |-> <<2, 2, 2>>, total_mem |-> Size(20, "G")]>>,
      <<[tag |-> "f1", nnodes |-> 1, mem_per_node |-> Size(10, "G")],
        [tag |-> "f4", nnodes |-> 4, mem_per_node |-> Size(10000, "M")],
        [tag |-> "u1", resizable |-> TRUE, type |-> "unstructured_grid",
         dim |-> 1, total_mem |-> Size(10000, "M")]>>,
      <<[tag |-> "u3", resizable |-> TRUE, type |-> "unstructured_grid",
         dim |-> 3, total_mem |-> Size(50, "G")]>> }

HeapRequests ==
    { [mem_per_node |-> Size(10, "G"), nnodes |-> 1],
      [mem_per_node |-> Size(10, "G"), nnodes |-> 4],
      [mem_per_node |-> Size(5000, "M"), nnodes |-> 2] }

\* __init__ on the heap: m = copy.deepcopy(model) for each fixed model.
HeapInit ==
    /\ callee = "heap"
    /\ config \in [model_db : HeapCatalogs, max_nnodes : {16}]
    /\ self = LET o == OmniModelResizer(config.model_db, config.max_nnodes)
              IN  [resizers           |-> o.resizers,
                   fixed_models       |-> [j \in 1..Len(o.fixed_models) |-> j],
                   can_resize_exactly |-> o.can_resize_exactly,
                   heap               |-> o.fixed_models]
    /\ request = [c \in Callers |-> NoRequest]
    /\ series = [c \in Callers |-> <<>>]
    /\ status = [c \in Callers |-> "idle"]

\* The state after a call of caller c ended with r = [heap, ref] or raised.
HeapReturned(c, r) ==
    /\ self' = [self EXCEPT !.heap = r.heap]
    /\ status' = [status EXCEPT ![c] = IF Raised(r) THEN r.raise ELSE "ok"]
    /\ series' = IF Raised(r) THEN series
                 ELSE [series EXCEPT ![c] = Append(@, r.ref)]

HeapResize(c, req) ==
    /\ callee = "heap" /\ status[c] = "idle"
    /\ request' = [request EXCEPT ![c] = req]
    /\ HeapReturned(c, Heap_Omni_resize(
                           self, Omni_resize(heap_catalog(self), req.mem_per_node, req.nnodes)))
    /\ UNCHANGED <<config, callee>>

HeapCallNext(c) ==
    /\ callee = "heap" /\ status[c] = "ok" /\ Len(series[c]) < MaxHeapSeries
    /\ HeapReturned(c, Heap_Omni_next(
                           self, Last(series[c]), heap_value(self.heap, Last(series[c])),
                           Omni_next(heap_catalog(self),
                                     heap_value(self.heap, Last(series[c])))))
    /\ UNCHANGED <<config, callee, request>>

HeapNext ==
    \/ \E c \in Callers, req \in HeapRequests : HeapResize(c, req)
    \/ \E c \in Callers : HeapCallNext(c)

SpecHeap == HeapInit /\ [][HeapNext]_vars

(***************************************************************************)
(* make_process_grid statement by statement: self is the frame of the call *)
(* (the prime the loop is at as the rest of all_primes, result, i, n1).    *)
(* An iteration of one of its two loops is one step.                       *)
(***************************************************************************)
LoopInit ==
    /\ callee = "make_process_grid loops"
    /\ config = <<>>
    /\ self = [pc |-> "call"]
    /\ request = NoRequest
    /\ series = <<>>
    /\ status = "idle"

\* The call down to "i = 0; n1 = n", with the two early returns.
LoopCall(n, dim) ==
    /\ callee = "make_process_grid loops" /\ status = "idle"
    /\ request' = [n |-> n, dim |-> dim]
    /\ IF n = 1 \/ n = 2
       THEN /\ status' = "ok"
            /\ series' = <<IF n = 1 THEN Repeat(1, dim) ELSE [Repeat(1, dim) EXCEPT ![1] = n]>>
            /\ self' = [pc |-> "done"]
       ELSE /\ status' = "running"
            /\ series' = series
            /\ self' = [pc |-> "assign", primes |-> prime_factors(n, n),
                        result |-> Repeat(1, dim), i |-> 0, n1 |-> n]
    /\ UNCHANGED <<config, callee>>

\* One test of "while n1 % v == 0" of the first loop, with its body or the
\* step to the next prime; after the last prime, the sort.
LoopAssign ==
    /\ callee = "make_process_grid loops" /\ status = "running" /\ self.pc = "assign"
    /\ self' = IF self.primes = <<>>
               THEN [self EXCEPT !.pc = "balance",
                                 !.primes = prime_factors(request.n, request.n),
                                 !.result = sorted_reverse(self.result)]
               ELSE IF self.n1 % Head(self.primes) = 0
               THEN [self EXCEPT !.result[(self.i % request.dim) + 1] = @ * Head(self.primes),
                                 !.i = @ + 1,
                                 !.n1 = @ \div Head(self.primes)]
               ELSE [self EXCEPT !.primes = Tail(@)]
    /\ UNCHANGED <<config, callee, request, series, status>>

\* One iteration of "while True" of the second loop: a move, or the break
\* and the step to the next prime; after the last prime, the assertion and
\* the return.
LoopBalance ==
    /\ callee = "make_process_grid loops" /\ status = "running" /\ self.pc = "balance"
    /\ IF self.primes = <<>>
       THEN /\ self' = [self EXCEPT !.pc = "done"]
            /\ status' = IF Product(self.result) = request.n THEN "ok" ELSE "AssertionError"
            /\ series' = IF Product(self.result) = request.n
                         THEN <<sorted_reverse(self.result)>> ELSE series
       ELSE /\ self' = IF can_move(self.result, Head(self.primes))
                       THEN [self EXCEPT !.result = move(@, Head(self.primes))]
                       ELSE [self EXCEPT !.primes = Tail(@)]
            /\ UNCHANGED <<series, status>>
    /\ UNCHANGED <<config, callee, request>>

LoopStep == LoopAssign \/ LoopBalance

LoopNext ==
    \/ \E n \in (1..MaxGridN) \cup GridLargeN \cup GridMixedN, dim \in 1..MaxGridDim :
           LoopCall(n, dim)
    \/ LoopAssign
    \/ LoopBalance

\* A call that has started runs on: the interpreter takes the next statement.
SpecLoops == LoopInit /\ [][LoopNext]_vars /\ WF_vars(LoopStep)

(***************************************************************************)
(* Catalogs of fixed models only, and a caller that keeps calling next on  *)
(* the last result for as long as it is returned one (the while loop of    *)
(* the weak-scaling series of generator.py).                               *)
(***************************************************************************)
MaxFixed == 3

ChainPool ==
    FixedPool \cup
    { [tag |-> "f16", nnodes |-> 16, mem_per_node |-> Size(9800, "M")],
      [tag |-> "f64", nnodes |-> 64, mem_per_node |-> Size(10, "G")] }

ChainInit ==
    /\ callee = "omni"
    /\ config \in [model_db : SeqsUpTo(ChainPool, MaxFixed), max_nnodes : {16}]
    /\ self = OmniModelResizer(config.model_db, config.max_nnodes)
    /\ request = NoRequest
    /\ series = <<>>
    /\ status = "idle"

ChainNext ==
    \/ \E m \in MemRequests, n \in NnodesRequests : OmniResize(m, n)
    \/ OmniNext

\* The caller's loop makes its next call whenever the last call returned a
\* result: weak fairness of OmniNext, WF_vars(OmniNext), written with the
\* condition under which OmniNext is enabled.
ChainCanCall == status = "ok" /\ callee = "omni" /\ Len(series) < MaxSeries

ChainFair == []<>(~ChainCanCall) \/ []<><<OmniNext>>_vars

SpecChain == ChainInit /\ [][ChainNext]_vars /\ ChainFair

(***************************************************************************)
(* Catalogs built from descriptors that may lack keys or name an unknown   *)
(* type.  When __init__ raises, no object exists and status holds the      *)
(* exception.                                                              *)
(***************************************************************************)
DescriptorPool ==
    { [tag |-> "f1", nnodes |-> 1, mem_per_node |-> Size(10, "G")],
      [tag |-> "f4", nnodes |-> 4, mem_per_node |-> Size(10000, "M")],
      [tag |-> "u1", resizable |-> TRUE, type |-> "unstructured_grid",
       dim |-> 1, total_mem |-> Size(10000, "M")],
      [nnodes |-> 1, mem_per_node |-> Size(10, "G")],
      [tag |-> "f", nnodes |-> 1],
      [tag |-> "f", mem_per_node |-> Size(10, "G")],
      [tag |-> "r", resizable |-> TRUE, dim |-> 1, total_mem |-> Size(10, "G")],
      [tag |-> "r", resizable |-> TRUE, type |-> "amr_grid",
       dim |-> 1, total_mem |-> Size(10, "G")],
      [tag |-> "s", resizable |-> TRUE, type |-> "structured_grid",
       total_mem |-> Size(10, "G")],
      [tag |-> "u", resizable |-> TRUE, type |-> "unstructured_grid", dim |-> 1] }

DescriptorInit ==
    /\ callee = "omni"
    /\ config \in [model_db : SeqsUpTo(DescriptorPool, MaxModels), max_nnodes : {16}]
    /\ self = OmniModelResizer(config.model_db, config.max_nnodes)
    /\ request = NoRequest
    /\ series = <<>>
    /\ status = IF Raised(self) THEN self.raise ELSE "idle"

DescriptorNext ==
    \/ \E m \in MemRequests, n \in NnodesRequests : OmniResize(m, n)
    \/ OmniNext

SpecDescriptor == DescriptorInit /\ [][DescriptorNext]_vars

(***************************************************************************)
(* sizeToFloat and floatToSize called on their own: sizeToFloat on a       *)
(* number or a string, or floatToSize on a byte count and then sizeToFloat *)
(* on the string it returned.                                              *)
(***************************************************************************)
MaxLen == 3
MaxExponent == 5

SizeAlphabet == {"1", "5", ".", "e", "-", "k", "M", "g", "i", "B", "x"}

\* Strings longer than MaxLen: units with their suffixes, exponents, and
\* text after the match.
LongSizes ==
    { <<"1", ".", "5", "K", "i", "B">>, <<"1", "3", ".", "3", "k", "b">>,
      <<"5", "0", "0", "M">>, <<"1", "e", "+", "1", "G">>, <<"5", "e", "-", "1", "m", "B">>,
      <<"2", "5", "E", "1", "g", "i", "b">>, <<"1", ".", "5", ".", "5", "k">>,
      <<"1", "0", " ", "G">>, <<" ", "1", "0", "G">>, <<"-", "1", ".", "5", "K">>,
      <<"+", "5", "M">>, <<"G", "1", "0">>, <<"1", "2", "b">>, <<"7", "i", "B">> }

\* The strings of up to MaxLen characters whose exponent, if they have one,
\* is at most MaxExponent.
SizeStrings ==
    { c \in SeqsUpTo(SizeAlphabet, MaxLen) :
          int_value(c, regex_match(c).exp_from, regex_match(c).exp_end, 0) <= MaxExponent }
    \cup LongSizes

\* Byte counts from one byte through gigabytes: n / 64 of a unit for n from
\* one unit up, and the last 64ths below 1024 units.
ByteCounts ==
    { Float(n, 64, 10 * u) : n \in (64..192) \cup (65400..65535), u \in 0..3 }
    \cup { FromInt(n) : n \in 1..100 }

SizeInit ==
    /\ callee = "sizeToFloat"
    /\ config = <<>>
    /\ self = <<>>
    /\ request = NoRequest
    /\ series = <<>>
    /\ status = "idle"

\* r = sizeToFloat(s), for a number or a str.
SizeToFloat(s) ==
    /\ callee = "sizeToFloat"
    /\ \/ status = "idle" /\ request' = s
       \/ status = "formatted" /\ s = [str |-> Last(series)] /\ request' = request
    /\ Returned(IF HasKey(s, "str") THEN sizeToFloat_str(s.str) ELSE sizeToFloat(s), series)
    /\ UNCHANGED <<config, self, callee>>

\* r = floatToSize(f), for a number.
FloatToSize(f) ==
    /\ callee = "sizeToFloat" /\ status = "idle"
    /\ request' = f
    /\ series' = <<Size_str(floatToSize(f))>>
    /\ status' = "formatted"
    /\ UNCHANGED <<config, self, callee>>

SizeNext ==
    \/ \E f \in ByteCounts : SizeToFloat(f)
    \/ \E c \in SizeStrings : SizeToFloat([str |-> c])
    \/ \E f \in ByteCounts : FloatToSize(f)
    \/ status = "formatted" /\ SizeToFloat([str |-> Last(series)])

SpecSize == SizeInit /\ [][SizeNext]_vars

(***************************************************************************)
(* Properties                                                              *)
(***************************************************************************)

\* C1: the mem_per_node of the result of UnstructuredGridModelResizer.resize
\* is never above the requested mem_per_node, whichever branch returned it.
C1_NonOvershoot ==
    (callee = "resizer" /\ self.class = "UnstructuredGridModelResizer" /\ Len(series) >= 1)
        => Le(sizeToFloat(series[1].mem_per_node), sizeToFloat(request.mem_per_node))

\* C2: when some fixed model has the requested nnodes and a ratio
\* mem_per_node / requested in (0.8, 1.0], OmniModelResizer.resize returns a
\* copy of such a model of largest ratio, whatever the resizers are; and a
\* fixed model it returns is always one of those.
C2_FixedModelMatch ==
    (callee = "omni" /\ status # "idle" /\ Len(series) <= 1) =>
        LET req      == sizeToFloat(request.mem_per_node)
            fm       == self.fixed_models
            ratio(j) == Div(sizeToFloat(fm[j].mem_per_node), req)
            matches  == {j \in 1..Len(fm) :
                            /\ fm[j].nnodes = request.nnodes
                            /\ Lt(Float(8, 10, 0), ratio(j))
                            /\ Le(ratio(j), FromInt(1))}
        IN  /\ matches # {} =>
                /\ Len(series) >= 1
                /\ \E j \in matches :
                       /\ series[1] = fm[j]
                       /\ \A i \in matches : Le(ratio(i), ratio(j))
            /\ (Len(series) >= 1 /\ series[1].resizer_id_ = None) =>
                   \E j \in matches : series[1] = fm[j]

\* A fixed model smaller than the request was returned by a catalog that
\* also holds a resizer.
C2_Witness ==
    /\ callee = "omni" /\ Len(series) = 1
    /\ self.resizers # <<>>
    /\ series[1].resizer_id_ = None
    /\ series[1].mem_per_node # request.mem_per_node

\* C3: when no fixed model matches and the catalog holds a resizer, the result
\* OmniModelResizer.resize returns is resizers[i].resize(mem_per_node, nnodes)
\* tagged with resizer_id_ = i, for an i whose candidate has the least
\* deviation 0.4 * (1 - mem ratio) + 0.6 * (1 - |dn| / (sum of nnodes)); the
\* call never ends with RuntimeError.
C3_ResizerScoring ==
    (callee = "omni" /\ status # "idle" /\ Len(series) <= 1) =>
        LET req      == sizeToFloat(request.mem_per_node)
            n        == request.nnodes
            fm       == self.fixed_models
            rs       == self.resizers
            ratio(j) == Div(sizeToFloat(fm[j].mem_per_node), req)
            matches  == {j \in 1..Len(fm) :
                            /\ fm[j].nnodes = n
                            /\ Lt(Float(8, 10, 0), ratio(j))
                            /\ Le(ratio(j), FromInt(1))}
            cand(i)  == Resizer_resize(rs[i], request.mem_per_node, n)
            dev(x)   == Add(Mul(Float(4, 10, 0),
                                Sub(FromInt(1), Div(sizeToFloat(x.mem_per_node), req))),
                            Mul(Float(6, 10, 0),
                                Sub(FromInt(1), Div(FromInt(Abs(x.nnodes - n)),
                                                    FromInt(x.nnodes + n)))))
        IN  (matches = {} /\ rs # <<>>) =>
                /\ Len(series) = 0 => status = "AssertionError"
                /\ Len(series) >= 1 =>
                       \E i \in 1..Len(rs) :
                           /\ series[1] = SetKey(cand(i), "resizer_id_", i - 1)
                           /\ \A j \in 1..Len(rs) : Le(dev(cand(i)), dev(cand(j)))

\* The second of two resizers gave the result, and the first one's candidate
\* was a different one.
C3_Witness ==
    /\ callee = "omni" /\ Len(series) = 1
    /\ Len(self.resizers) = 2
    /\ series[1].resizer_id_ = 1
    /\ Resizer_resize(self.resizers[1], request.mem_per_node, request.nnodes).nnodes
           # series[1].nnodes

\* C4: along every series resize, next, next, ... of a catalog or of a
\* resizer, nnodes is strictly increasing.
C4_MonotonicSeries ==
    callee \in {"omni", "resizer"} =>
        \A k \in 1..(Len(series) - 1) : series[k + 1].nnodes > series[k].nnodes

\* A catalog series that went from a fixed model to a resizer and on.
C4_Witness ==
    /\ callee = "omni" /\ Len(series) >= 3
    /\ series[1].resizer_id_ = None
    /\ series[2].resizer_id_ # None

\* C5: no result of next has more nodes than the max_nnodes the catalog was
\* constructed with.
C5_MaxNnodesCeiling ==
    callee = "omni" =>
        \A k \in 2..Len(series) : series[k].nnodes <= config.max_nnodes

\* C6: make_process_grid(n, dim) returns, its assertion holding, a list of dim
\* positive integers of product n in non-increasing order.
C6_Factorization ==
    (callee = "make_process_grid" /\ status # "idle") =>
        /\ status = "ok"
        /\ Len(series[1]) = request.dim
        /\ \A i \in 1..Len(series[1]) : series[1][i] >= 1
        /\ Product(series[1]) = request.n
        /\ \A i \in 1..(Len(series[1]) - 1) : series[1][i] >= series[1][i + 1]

\* A composite n whose factors the balancing loop moved.
C6_Witness ==
    /\ callee = "make_process_grid" /\ status = "ok"
    /\ request = [n |-> 12, dim |-> 2]
    /\ series[1] = <<4, 3>>

C8_StructuredChain ==
    (callee = "resizer" /\ self.class = "StructuredGridModelResizer" /\ Len(series) >= 1) =>
        LET n   == request.nnodes
            dim == self.dim
            nx  == Structured_nx(self, sizeToFloat(request.mem_per_node))
            r0  == series[1]
        IN  /\ r0.nnodes = n /\ r0.index_ = 0
            /\ Len(r0.grid) = dim
            /\ \A i \in 1..dim : r0.grid[i] = nx * make_process_grid(n, dim)[i]
            /\ \A k \in 0..(Len(series) - 1) :
                   /\ series[k + 1].nnodes = n * (2 ^ k)
                   /\ series[k + 1].index_ = k % dim
                   /\ Product(series[k + 1].grid) = (nx ^ dim) * series[k + 1].nnodes
                   /\ series[k + 1].mem_per_node = r0.mem_per_node
                   /\ k >= 1 =>
                          \A i \in 1..dim :
                              series[k + 1].grid[i] =
                                  IF i = series[k].index_ + 1
                                  THEN 2 * series[k].grid[i]
                                  ELSE series[k].grid[i]

\* A series on a two-dimensional grid long enough for index_ to wrap around.
C8_Witness ==
    /\ callee = "resizer" /\ self.class = "StructuredGridModelResizer"
    /\ self.dim = 2 /\ Len(series) >= 4
    /\ request.nnodes = 6
    /\ series[4].index_ = 1

\* C9: the series r0 = resize(m, n), r1, r2, ... of an
\* UnstructuredGridModelResizer has rk.nnodes = r0.nnodes * stride^k with
\* stride = 2^dim, rk.nrefines = r0.nrefines + k and rk.mem_per_node =
\* r0.mem_per_node, and total_mem * stride^nrefines / nnodes is the same for
\* every rk: the memory per node r0 shows.
C9_UnstructuredChain ==
    (callee = "resizer" /\ self.class = "UnstructuredGridModelResizer" /\ Len(series) >= 1) =>
        LET stride == 2 ^ self.dim
            r0     == series[1]
            mem(r) == Div(Mul(self.total_mem, FromInt(stride ^ r.nrefines)),
                          FromInt(r.nnodes))
        IN  /\ self.stride = stride
            /\ r0.mem_per_node = floatToSize(mem(r0))
            /\ \A k \in 0..(Len(series) - 1) :
                   /\ series[k + 1].nnodes = r0.nnodes * (stride ^ k)
                   /\ series[k + 1].nrefines = r0.nrefines + k
                   /\ series[k + 1].mem_per_node = r0.mem_per_node
                   /\ mem(series[k + 1]) = mem(r0)

\* A series of a refined model of more than one dimension.
C9_Witness ==
    /\ callee = "resizer" /\ self.class = "UnstructuredGridModelResizer"
    /\ self.dim >= 2 /\ Len(series) >= 3
    /\ series[1].nrefines >= 1

\* C10: OmniModelResizer.next of a result carrying resizer_id_ = i returns
\* resizers[i].next of it tagged with resizer_id_ = i, and never raises; so
\* every result after a resizer's result carries the same resizer_id_.
C10_ProvenanceRouting ==
    callee = "omni" =>
        /\ (Len(series) >= 1 /\ Last(series).resizer_id_ # None) => status = "ok"
        /\ \A k \in 1..(Len(series) - 1) :
               series[k].resizer_id_ # None =>
                   /\ series[k + 1] =
                          SetKey(Resizer_next(self.resizers[series[k].resizer_id_ + 1],
                                              series[k]),
                                 "resizer_id_", series[k].resizer_id_)
                   /\ \A j \in (k + 1)..Len(series) :
                          series[j].resizer_id_ = series[k].resizer_id_

\* A resizer's result was followed by the same resizer's next although a
\* fixed model of the catalog has the nnodes that next reached.
C10_Witness ==
    /\ callee = "omni" /\ Len(series) >= 3
    /\ series[1].resizer_id_ = 0
    /\ self.fixed_models # <<>>
    /\ self.fixed_models[1].nnodes = series[2].nnodes

\* C11: OmniModelResizer.next of a fixed-origin result r (resizer_id_ = None):
\* when some fixed model has nnodes > r.nnodes and a ratio mem_per_node /
\* r.mem_per_node in [0.95, 1.05], next does not raise and returns a copy of
\* such a model of smallest nnodes, whatever the resizers could supply; and a
\* fixed model that next returns is always one of those.
C11_FixedNext ==
    callee = "omni" =>
        \A k \in 1..Len(series) :
            series[k].resizer_id_ = None =>
                LET r        == series[k]
                    fm       == self.fixed_models
                    ratio(j) == Div(sizeToFloat(fm[j].mem_per_node),
                                    sizeToFloat(r.mem_per_node))
                    within   == {j \in 1..Len(fm) :
                                    /\ fm[j].nnodes > r.nnodes
                                    /\ Le(Float(95, 100, 0), ratio(j))
                                    /\ Le(ratio(j), Float(105, 100, 0))}
                IN  /\ (within # {} /\ k = Len(series)) => status = "ok"
                    /\ (within # {} /\ k < Len(series)) =>
                           \E j \in within :
                               /\ series[k + 1] = fm[j]
                               /\ \A i \in within : fm[j].nnodes <= fm[i].nnodes
                    /\ (k < Len(series) /\ series[k + 1].resizer_id_ = None) =>
                           \E j \in within : series[k + 1] = fm[j]

\* C12: OmniModelResizer.next of a fixed-origin result r for which no fixed
\* model qualifies: every resizer is probed with resize(r.mem_per_node,
\* r.nnodes * k) for k = 2, 4, 8 in that order and its hit is the first probe
\* with nnodes > r.nnodes and mem_per_node within 5% of r.mem_per_node; next
\* returns a hit whose mem_per_node is closest to r.mem_per_node, tagged with
\* the index of its resizer.
C12_ProbedNext ==
    callee = "omni" =>
        \A k \in 1..(Len(series) - 1) :
            series[k].resizer_id_ = None =>
                LET r           == series[k]
                    cur         == sizeToFloat(r.mem_per_node)
                    fm          == self.fixed_models
                    rs          == self.resizers
                    inband(x)   == /\ Le(Float(95, 100, 0), Div(sizeToFloat(x.mem_per_node), cur))
                                   /\ Le(Div(sizeToFloat(x.mem_per_node), cur), Float(105, 100, 0))
                    within      == {j \in 1..Len(fm) : fm[j].nnodes > r.nnodes /\ inband(fm[j])}
                    probe(i, f) == Resizer_resize(rs[i], cur, r.nnodes * f)
                    ok(i, f)    == probe(i, f).nnodes > r.nnodes /\ inband(probe(i, f))
                    hits        == {i \in 1..Len(rs) : ok(i, 2) \/ ok(i, 4) \/ ok(i, 8)}
                    hit(i)      == IF ok(i, 2) THEN probe(i, 2)
                                   ELSE IF ok(i, 4) THEN probe(i, 4) ELSE probe(i, 8)
                    dist(x)     == FAbs(Sub(sizeToFloat(x.mem_per_node), cur))
                IN  (within = {} /\ hits # {}) =>
                        \E i \in hits :
                            /\ series[k + 1] = SetKey(hit(i), "resizer_id_", i - 1)
                            /\ \A j \in hits : Le(dist(hit(i)), dist(hit(j)))

C14_NoCandidateFound ==
    (callee = "omni" /\ status # "idle") =>
        LET req      == sizeToFloat(request.mem_per_node)
            fm       == self.fixed_models
            ratio(j) == Div(sizeToFloat(fm[j].mem_per_node), req)
            matches  == {j \in 1..Len(fm) :
                            /\ fm[j].nnodes = request.nnodes
                            /\ Lt(Float(8, 10, 0), ratio(j))
                            /\ Le(ratio(j), FromInt(1))}
        IN  /\ (status = "RuntimeError") <=> (matches = {} /\ self.resizers = <<>>)
            /\ (matches # {} \/ self.resizers # <<>>) => Len(series) >= 1

\* C15: for the UnstructuredGridModelResizer of helpers2, when the requested
\* total mem_per_node * nnodes is smaller than total_mem by more than 1%
\* relative deviation, resize returns nrefines = 0, nnodes = the smallest
\* power of two N with total_mem / N <= mem_per_node, and mem_per_node =
\* total_mem / N (for dim 3 and total_mem 5G: 4.5G on 1 node gives 2 nodes of
\* 2.5G, 500M on 8 nodes gives 16 nodes of 320.0M).
C15_Helpers2Shrink ==
    (callee = "helpers2" /\ status # "idle") =>
        LET mem       == sizeToFloat(request.mem_per_node)
            total_req == Mul(mem, FromInt(request.nnodes))
            rel       == FAbs(Div(Mul(FromInt(2), Sub(total_req, self.total_mem)),
                                  Add(self.total_mem, total_req)))
            fits(N)   == Le(Div(self.total_mem, FromInt(N)), mem)
            pow2(N)   == \E e \in 0..12 : N = 2 ^ e
        IN  (Lt(total_req, self.total_mem) /\ Lt(Float(1, 100, 0), rel)) =>
                /\ Len(series) = 1
                /\ series[1].nrefines = 0
                /\ pow2(series[1].nnodes) /\ fits(series[1].nnodes)
                /\ series[1].nnodes > 1 => ~fits(series[1].nnodes \div 2)
                /\ series[1].mem_per_node =
                       floatToSize(Div(self.total_mem, FromInt(series[1].nnodes)))

\* C16: helpers.UnstructuredGridModelResizer with dim = 3 and total_mem = 5G
\* returns (nrefines, nnodes, mem_per_node) = (0, 1, 5.0G) for resize(5.1G, 1),
\* (0, 2, 2.5G) for (4.5G, 1), (0, 16, 320.0M) for (500M, 1), (500M, 8) and
\* (500M, 16), and (1, 128, 320.0M) for (500M, 64).
C16_UnstructuredFixtures ==
    (/\ callee = "resizer"
     /\ config = [type |-> "unstructured_grid", dim |-> 3, total_mem |-> Size(50, "G")]
     /\ status # "idle") =>
        LET expect(nrefines, nnodes, mem_per_node) ==
                /\ Len(series) >= 1
                /\ series[1] = [nrefines |-> nrefines, nnodes |-> nnodes,
                                 mem_per_node |-> mem_per_node]
            asked(mem_per_node, nnodes) ==
                request = [mem_per_node |-> mem_per_node, nnodes |-> nnodes]
        IN  /\ asked(Size(51, "G"), 1) => expect(0, 1, Size(50, "G"))
            /\ asked(Size(45, "G"), 1) => expect(0, 2, Size(25, "G"))
            /\ asked(Size(5000, "M"), 1) => expect(0, 16, Size(3200, "M"))
            /\ asked(Size(5000, "M"), 8) => expect(0, 16, Size(3200, "M"))
            /\ asked(Size(5000, "M"), 16) => expect(0, 16, Size(3200, "M"))
            /\ asked(Size(5000, "M"), 64) => expect(1, 128, Size(3200, "M"))

\* The fixture of 500M on 64 nodes, which refines once and doubles nnodes.
C16_Witness ==
    /\ callee = "resizer"
    /\ config = [type |-> "unstructured_grid", dim |-> 3, total_mem |-> Size(50, "G")]
    /\ request = [mem_per_node |-> Size(5000, "M"), nnodes |-> 64]
    /\ Len(series) = 1 /\ series[1].nnodes = 128

\* C17: make_process_grid returns the grids of the regression fixtures:
\* (6, 2) -> [3, 2], (2, 2) -> [2, 1], (4, 2) -> [2, 2], (8, 2) -> [4, 2],
\* (3072, 2) -> [64, 48], (6, 3) -> [3, 2, 1], (2, 3) -> [2, 1, 1] and
\* (16, 3) -> [4, 2, 2].
C17_GridFixtures ==
    (callee = "make_process_grid" /\ status # "idle") =>
        LET case(n, dim, grid) ==
                request = [n |-> n, dim |-> dim] => (status = "ok" /\ series = <<grid>>)
        IN  /\ case(6, 2, <<3, 2>>)
            /\ case(2, 2, <<2, 1>>)
            /\ case(4, 2, <<2, 2>>)
            /\ case(8, 2, <<4, 2>>)
            /\ case(3072, 2, <<64, 48>>)
            /\ case(6, 3, <<3, 2, 1>>)
            /\ case(2, 3, <<2, 1, 1>>)
            /\ case(16, 3, <<4, 2, 2>>)

\* The largest fixture, whose factors the balancing loop has to move.
C17_Witness ==
    /\ callee = "make_process_grid" /\ status = "ok"
    /\ request = [n |-> 3072, dim |-> 2]
    /\ series[1][1] = 64

C20_Partition ==
    callee = "omni" =>
        LET db        == config.model_db
            isRes(m)  == HasKey(m, "resizable") /\ m.resizable
            fixedOf   == SelectSeq(db, LAMBDA m : ~isRes(m))
            resOf     == SelectSeq(db, LAMBDA m : isRes(m))
            built(m)  == IF m.type = "structured_grid"
                         THEN StructuredGridModelResizer(m.grid, m.total_mem)
                         ELSE UnstructuredGridModelResizer(m.dim, m.total_mem)
        IN  /\ Len(self.fixed_models) = Len(fixedOf)
            /\ \A j \in 1..Len(fixedOf) :
                   self.fixed_models[j] = SetKey(fixedOf[j], "resizer_id_", None)
            /\ Len(self.resizers) = Len(resOf)
            /\ \A j \in 1..Len(resOf) : self.resizers[j] = built(resOf[j])
            /\ Len(self.fixed_models) + Len(self.resizers) = Len(db)
            /\ exactResize(self) <=>
                   \E j \in 1..Len(resOf) : resOf[j].type = "structured_grid"

\* A catalog of a resizable unstructured model and a structured model that
\* is not resizable: one resizer, one fixed model, not exact.
C20_Witness ==
    /\ callee = "omni"
    /\ Len(self.resizers) = 1 /\ Len(self.fixed_models) = 1
    /\ self.resizers[1].class = "UnstructuredGridModelResizer"
    /\ HasKey(self.fixed_models[1], "type")
    /\ self.fixed_models[1].type = "structured_grid"
    /\ ~exactResize(self)

\* C19: no call of resize or next changes an object that existed before the
\* call (the result passed in, the results returned before to either caller
\* and their grid lists, the records of fixed_models), the list fixed_models
\* or the parameters of the resizers; and whatever the interleaving of the
\* calls of the two callers, each caller's results and exceptions are those
\* of the same calls on a catalog of its own.
C19_SideEffectFree ==
    [][callee = "heap" =>
           /\ Len(self'.heap) >= Len(self.heap)
           /\ \A ref \in 1..Len(self.heap) : self'.heap[ref] = self.heap[ref]
           /\ self'.fixed_models = self.fixed_models
           /\ self'.resizers = self.resizers
           /\ self'.can_resize_exactly = self.can_resize_exactly
           /\ \A c \in Callers :
                  LET alone   == OmniModelResizer(config.model_db, config.max_nnodes)
                      got(k)  == heap_value(self'.heap, series'[c][k])
                      n       == Len(series'[c])
                      first   == Omni_resize(alone, request'[c].mem_per_node,
                                             request'[c].nnodes)
                  IN  /\ n >= 1 => got(1) = first
                      /\ \A k \in 1..(n - 1) : got(k + 1) = Omni_next(alone, got(k))
                      /\ (status'[c] \notin {"idle", "ok"} /\ n = 0) =>
                             first = Raise(status'[c])
                      /\ (status'[c] \notin {"idle", "ok"} /\ n >= 1) =>
                             Omni_next(alone, got(n)) = Raise(status'[c])
      ]_vars

\* Both callers hold a series of a structured resizer, and caller 2 was
\* returned its first result between the first two results of caller 1.
C19_Witness ==
    /\ callee = "heap"
    /\ Len(series[1]) >= 2 /\ Len(series[2]) >= 2
    /\ HasKey(self.heap[series[1][1]], "grid")
    /\ series[1][1] < series[2][1] /\ series[2][1] < series[1][2]
    /\ self.heap[series[1][2]].grid # self.heap[series[1][1]].grid
    /\ heap_value(self.heap, series[1][2]).grid # heap_value(self.heap, series[1][1]).grid

\* C27: the grid make_process_grid returns is a fixed point of the balancing
\* rule: for no prime factor p of n do both max(result) > min(result) * p
\* and max(result) % p = 0 hold.
C27_BalancedFixedPoint ==
    (callee = "make_process_grid" /\ status = "ok") =>
        \A p \in 2..request.n :
            (request.n % p = 0 /\ is_prime(p)) => ~can_move(series[1], p)

\* C28: make_process_grid terminates: a call that entered the loops reaches
\* its return (or its assertion), the prime-assignment loop having reduced
\* n1 to 1 and every balancing loop having made finitely many moves; and
\* what it returns is the grid the loops compute.
C28_Terminates ==
    (callee = "make_process_grid loops" /\ status = "running")
        ~> (/\ status \in {"ok", "AssertionError"}
            /\ self.pc = "done" /\ (request.n > 2 => self.n1 = 1)
            /\ status = "ok" => series = <<make_process_grid(request.n, request.dim)>>)

\* A call of three primes returned after its balancing loops moved factors.
C28_Witness ==
    /\ callee = "make_process_grid loops" /\ status = "ok"
    /\ request.n > 2 /\ self.pc = "done"
    /\ Len(prime_factors(request.n, request.n)) = 3
    /\ self.result # sorted_reverse(assign_all([result |-> Repeat(1, request.dim), i |-> 0,
                                                  n1 |-> request.n],
                                                 prime_factors(request.n, request.n),
                                                 request.dim).result)

\* C26: in UnstructuredGridModelResizer.resize, when the request is larger
\* than the model and the model is not used as it is, with
\* i = floor(log_stride(total_mem_req / total_mem)): if
\* total_mem * stride^i / nnodes * 2 < mem_per_node, the assertion
\* real_mem_per_node > mem_per_node after the increment of i does not fail
\* and the result has nrefines = i + 1 >= 1 and an nnodes that is a power of
\* two and greater than the requested nnodes; otherwise the result keeps
\* the requested nnodes and has nrefines = i.
C26_RefineAndGrow ==
    (callee = "resizer" /\ self.class = "UnstructuredGridModelResizer" /\ status # "idle") =>
        LET mem_per_node  == sizeToFloat(request.mem_per_node)
            total_mem_req == Mul(mem_per_node, FromInt(request.nnodes))
            i             == floor_log(Div(total_mem_req, self.total_mem), self.stride, 0)
        IN  (Lt(self.total_mem, total_mem_req) /\ ~Unstructured_direct(self, total_mem_req)) =>
                IF Lt(Mul(Div(real_mem(self, i), FromInt(request.nnodes)), FromInt(2)),
                      mem_per_node)
                THEN /\ status # "AssertionError" /\ Len(series) >= 1
                     /\ Lt(mem_per_node, Div(real_mem(self, i + 1), FromInt(request.nnodes)))
                     /\ series[1].nrefines = i + 1 /\ series[1].nrefines >= 1
                     /\ series[1].nnodes > request.nnodes
                     /\ pow2_ceil(series[1].nnodes, 1) = series[1].nnodes
                ELSE /\ Len(series) >= 1
                     /\ series[1].nrefines = i
                     /\ series[1].nnodes = request.nnodes

\* A request of three nodes that was refined twice and given sixteen nodes.
C26_Witness ==
    /\ callee = "resizer" /\ self.class = "UnstructuredGridModelResizer"
    /\ Len(series) >= 1
    /\ request.nnodes = 3
    /\ series[1].nrefines >= 2
    /\ series[1].nnodes > request.nnodes

\* C29: UnstructuredGridModelResizer.resize never returns fewer nodes than
\* requested: the result has nnodes >= requested nnodes >= 1 and
\* nrefines >= 0; nnodes is the requested one when the model is used as it
\* is or is only refined, and a power of two in the two branches that
\* change it (refine and grow, shrink).
C29_EnoughNodes ==
    (callee = "resizer" /\ self.class = "UnstructuredGridModelResizer" /\ Len(series) >= 1) =>
        LET mem_per_node  == sizeToFloat(request.mem_per_node)
            total_mem_req == Mul(mem_per_node, FromInt(request.nnodes))
            result        == series[1]
        IN  /\ request.nnodes >= 1
            /\ result.nnodes >= request.nnodes
            /\ result.nrefines >= 0
            /\ Unstructured_direct(self, total_mem_req) =>
                   (result.nnodes = request.nnodes /\ result.nrefines = 0)
            /\ result.nnodes # request.nnodes =>
                   pow2_ceil(result.nnodes, 1) = result.nnodes
            /\ (~Unstructured_direct(self, total_mem_req)
                    /\ ~Lt(self.total_mem, total_mem_req)) =>
                   (/\ pow2_ceil(result.nnodes, 1) = result.nnodes
                    /\ result.nrefines = 0)

\* A request of twelve nodes smaller than the model, answered with sixteen.
C29_Witness ==
    /\ callee = "resizer" /\ self.class = "UnstructuredGridModelResizer"
    /\ Len(series) >= 1
    /\ request.nnodes = 12
    /\ series[1].nrefines = 0
    /\ series[1].nnodes = 16
    /\ Lt(Mul(sizeToFloat(request.mem_per_node), FromInt(12)), self.total_mem)

\* C24: in OmniModelResizer.resize the assertion s1 >= 0 of deviation never
\* fails: no candidate of a resizer has a mem_per_node (formatted and parsed
\* again) above the request, and the mem_per_node of the result of a catalog
\* resize is never above the request.
C24_DeviationAssertion ==
    (callee = "omni" /\ status # "idle") =>
        /\ status # "AssertionError"
        /\ \A j \in 1..Len(self.resizers) :
               LET m == Resizer_resize(self.resizers[j], request.mem_per_node, request.nnodes)
               IN  ~Raised(m) =>
                       Le(sizeToFloat(m.mem_per_node), sizeToFloat(request.mem_per_node))
        /\ Len(series) >= 1 =>
               Le(sizeToFloat(series[1].mem_per_node), sizeToFloat(request.mem_per_node))

\* C25: OmniModelResizer.resize returns the best matching candidate of the
\* resizers: when no fixed model matches, a candidate B is not the result if
\* another candidate A has nnodes closer to the requested nnodes and a
\* mem_per_node at least as close to the requested mem_per_node.
C25_BestMatch ==
    (callee = "omni" /\ Len(series) >= 1 /\ series[1].resizer_id_ # None) =>
        LET req        == sizeToFloat(request.mem_per_node)
            cand(i)    == Resizer_resize(self.resizers[i], request.mem_per_node,
                                         request.nnodes)
            dn(x)      == Abs(x.nnodes - request.nnodes)
            dmem(x)    == FAbs(Sub(req, sizeToFloat(x.mem_per_node)))
        IN  \A a, b \in 1..Len(self.resizers) :
                (/\ ~Raised(cand(a)) /\ ~Raised(cand(b))
                 /\ dn(cand(a)) < dn(cand(b))
                 /\ Le(dmem(cand(a)), dmem(cand(b))))
                    => series[1] # tagged(cand(b), b - 1)

\* C30: for an OmniModelResizer that holds no resizers, every chain of next
\* calls from a result of resize ends with StopIteration, after at most
\* len(fixed_models) - 1 successful next calls, every result is a fixed
\* model of the catalog and none appears twice in the chain.
C30_FixedChainEnds ==
    (callee = "omni" /\ self.resizers = <<>> /\ status = "ok")
        ~> (/\ status = "StopIteration"
            /\ Len(series) - 1 <= Len(self.fixed_models) - 1
            /\ \A k \in 1..Len(series) :
                   \E j \in 1..Len(self.fixed_models) : series[k] = self.fixed_models[j]
            /\ \A j, k \in 1..Len(series) : j # k => series[j] # series[k])

\* A chain that went through all three fixed models of its catalog and ended.
C30_Witness ==
    /\ callee = "omni" /\ self.resizers = <<>>
    /\ Len(self.fixed_models) = 3
    /\ Len(series) = 3
    /\ status = "StopIteration"

\* C21: the construction of an OmniModelResizer fails when model_db holds a
\* malformed descriptor (no tag; resizable with no type or an unknown type;
\* fixed with no nnodes or no mem_per_node; resizable with no grid / dim /
\* total_mem), and no call of resize or next on a constructed catalog fails
\* on a missing key.
C21_FailFast ==
    callee = "omni" =>
        LET fixed(d)     == ~(HasKey(d, "resizable") /\ d.resizable)
            malformed(d) ==
                \/ ~HasKey(d, "tag")
                \/ fixed(d) /\ (~HasKey(d, "nnodes") \/ ~HasKey(d, "mem_per_node"))
                \/ ~fixed(d) /\ ~HasKey(d, "type")
                \/ ~fixed(d) /\ HasKey(d, "type")
                       /\ d.type \notin {"structured_grid", "unstructured_grid"}
                \/ ~fixed(d) /\ HasKey(d, "type") /\ d.type = "structured_grid"
                       /\ (~HasKey(d, "grid") \/ ~HasKey(d, "total_mem"))
                \/ ~fixed(d) /\ HasKey(d, "type") /\ d.type = "unstructured_grid"
                       /\ (~HasKey(d, "dim") \/ ~HasKey(d, "total_mem"))
        IN  /\ (\E j \in 1..Len(config.model_db) : malformed(config.model_db[j]))
                   => Raised(self)
            /\ ~Raised(self) => status # "KeyError"

\* C22: sizeToFloat returns a plain number unchanged; for a string that
\* starts with a digit it returns number * multiplier, where number is the
\* longest prefix of the form digits[.digits][(e|E)[+|-]digits] and the
\* multiplier is 1024, 1024^2 or 1024^3 for a letter k, m or g (in either
\* case) right after the number and 1 when no such letter follows; for a
\* string that does not start with a digit it raises RuntimeError.
C22_SizeToFloat ==
    (callee = "sizeToFloat" /\ status \in {"ok", "RuntimeError"} /\ Len(series) <= 1) =>
        IF ~HasKey(request, "str") THEN status = "ok" /\ series = <<request>>
        ELSE LET s            == request.str
                 digit(c)     == \E k \in 1..10 : Digits[k] = c
                 digits(i, j) == i <= j /\ \A k \in i..j : digit(s[k])
                 mantissa(b)  == \E a \in 1..b :
                                    /\ digits(1, a)
                                    /\ (a = b \/ (s[a + 1] = "." /\ digits(a + 2, b)))
                 numeral(q)   ==
                     \/ mantissa(q)
                     \/ \E b \in 1..(q - 2) :
                            /\ mantissa(b) /\ s[b + 1] \in {"e", "E"}
                            /\ \/ digits(b + 2, q)
                               \/ (b + 3 <= q /\ s[b + 2] \in {"+", "-"} /\ digits(b + 3, q))
                 case(str, v) == s = str => series = <<v>>
             IN  IF s = <<>> \/ ~digit(s[1])
                 THEN status = "RuntimeError" /\ series = <<>>
                 ELSE LET p      == CHOOSE q \in 1..Len(s) :
                                        numeral(q) /\ \A r \in (q + 1)..Len(s) : ~numeral(r)
                          letter == IF p < Len(s) THEN s[p + 1] ELSE ""
                          mult   == IF letter \in {"k", "K"} THEN 1024
                                    ELSE IF letter \in {"m", "M"} THEN 1024 * 1024
                                    ELSE IF letter \in {"g", "G"} THEN 1024 * 1024 * 1024
                                    ELSE 1
                      IN  /\ status = "ok"
                          /\ regex_match(s).exp_end = p + 1
                          /\ series = <<Mul(group1_float(s, regex_match(s)), FromInt(mult))>>
                          /\ case(<<"1", ".", "5", "K", "i", "B">>, FromInt(1536))
                          /\ case(<<"1", "3", ".", "3", "k", "b">>, Float(133 * 1024, 10, 0))
                          /\ case(<<"5", "0", "0", "M">>, Float(500, 1, 20))
                          /\ case(<<"1", "e", "+", "1", "G">>, Float(10, 1, 30))
                          /\ case(<<"5", "e", "-", "1", "m", "B">>, Float(1, 2, 20))
                          /\ case(<<"2", "5", "E", "1", "g", "i", "b">>, Float(250, 1, 30))
                          /\ case(<<"1", ".", "5", ".", "5", "k">>, Float(3, 2, 0))
                          /\ case(<<"1", "0", " ", "G">>, FromInt(10))
                          /\ case(<<"1", "2", "b">>, FromInt(12))
                          /\ case(<<"7", "i", "B">>, FromInt(7))
                          /\ case(<<"5", "e", "5">>, FromInt(500000))
                          /\ case(<<"1", ".", "5">>, Float(3, 2, 0))
                          /\ case(<<"5", "g", "x">>, Float(5, 1, 30))

\* "1.5KiB" was parsed to 1536 bytes.
C22_Witness ==
    /\ callee = "sizeToFloat" /\ status = "ok"
    /\ request = [str |-> <<"1", ".", "5", "K", "i", "B">>]
    /\ series = <<FromInt(1536)>>

\* C23: for every byte count x from one byte through gigabytes,
\* sizeToFloat(floatToSize(x)) differs from x by at most 0.05 * x, where
\* floatToSize(x) has one digit after the point and the unit none, K, M or
\* G by the thresholds 1024, 1024^2 and 1024^3.
C23_RoundTrip ==
    (callee = "sizeToFloat" /\ status = "ok" /\ Len(series) = 2) =>
        LET x    == request
            str  == series[1]
            unit == IF Lt(x, FromInt(1024)) THEN <<>>
                    ELSE IF Lt(x, FromInt(1024 * 1024)) THEN <<"K">>
                    ELSE IF Lt(x, FromInt(1024 * 1024 * 1024)) THEN <<"M">>
                    ELSE <<"G">>
            n    == Len(str) - Len(unit)
        IN  /\ Le(FromInt(1), x)
            /\ Le(FAbs(Sub(series[2], x)), Mul(Float(5, 100, 0), x))
            /\ SubSeq(str, n + 1, Len(str)) = unit
            /\ n >= 3 /\ str[n - 1] = "."
            /\ \A k \in (1..n) \ {n - 1} : \E d \in 1..10 : Digits[d] = str[k]

\* 67/64 K was written "1.0K" and read back as 1024 bytes, 4.5% less.
C23_Witness ==
    /\ callee = "sizeToFloat" /\ status = "ok" /\ Len(series) = 2
    /\ request = Float(67, 64, 10)
    /\ series[1] = <<"1", ".", "0", "K">>
    /\ series[2] = FromInt(1024)

====
